---- MODULE Spec2Model ----
(***************************************************************************)
(* A model of the av-pipeline-tracker: the log parser (tracker/logs/       *)
(* parser.py), the most-recent-file selector (tracker/helpers/utils.py),   *)
(* the log-tracking entry point (tracker/scripts/track_logs.py) and the    *)
(* staleness check (tracker/scripts/track_lochness.py).                    *)
(*                                                                         *)
(* Python strings are sequences of one-character strings, so that `in`,    *)
(* split, int, strptime, the glob pattern and the ordering of paths are    *)
(* computed character by character, as the interpreter computes them.      *)
(***************************************************************************)
EXTENDS Integers, Sequences, FiniteSets, TLC

\* ------------------------------------------------------------------------
\* Characters and strings
\* ------------------------------------------------------------------------

\* The characters the model uses, in code point order (ASCII).
Chars ==
    << " ", "(", ")", "+", ",", "-", ".", "/",
       "0", "1", "2", "3", "4", "5", "6", "7", "8", "9", ":",
       "A", "C", "E", "F", "I", "L", "M", "N", "O", "P", "R", "T", "Y", "_",
       "a", "b", "c", "d", "e", "f", "g", "i", "j", "k", "l", "m", "n",
       "o", "p", "q", "r", "s", "t", "u", "v", "x", "y" >>

CharSet == { Chars[i] : i \in 1..Len(Chars) }

\* The rank of a character in code point order.
Ord == [ c \in CharSet |-> CHOOSE i \in 1..Len(Chars) : Chars[i] = c ]

Digits == << "0", "1", "2", "3", "4", "5", "6", "7", "8", "9" >>

IsDigit(c) == \E i \in 1..10 : Digits[i] = c

DigitVal(c) == (CHOOSE i \in 1..10 : Digits[i] = c) - 1

\* a < b for Python str: the first differing character decides, a proper
\* prefix is smaller.
StrLess(a, b) ==
    \E i \in 1..(Len(b)) :
        /\ i <= Len(a) + 1
        /\ \A j \in 1..(i - 1) : a[j] = b[j]
        /\ \/ i = Len(a) + 1
           \/ (i <= Len(a) /\ Ord[a[i]] < Ord[b[i]])

\* sub in s (Python's substring test).
Contains(s, sub) ==
    \E i \in 1..(Len(s) - Len(sub) + 1) :
        SubSeq(s, i, i + Len(sub) - 1) = sub

StartsWith(s, p) == Len(p) <= Len(s) /\ SubSeq(s, 1, Len(p)) = p

EndsWith(s, p) ==
    Len(p) <= Len(s) /\ SubSeq(s, Len(s) - Len(p) + 1, Len(s)) = p

\* s.split(sep) for a one-character separator: the fields between the
\* separators, empty fields kept.
RECURSIVE SplitOn(_, _)
SplitOn(s, sep) ==
    IF \A i \in 1..Len(s) : s[i] # sep
    THEN << s >>
    ELSE LET k == CHOOSE i \in 1..Len(s) :
                      s[i] = sep /\ \A j \in 1..(i - 1) : s[j] # sep
         IN  << SubSeq(s, 1, k - 1) >> \o SplitOn(SubSeq(s, k + 1, Len(s)), sep)

\* s.split(): the maximal runs of non-whitespace characters.
RECURSIVE SplitWs(_)
SplitWs(s) ==
    IF \A i \in 1..Len(s) : s[i] = " "
    THEN << >>
    ELSE LET b == CHOOSE i \in 1..Len(s) :
                      s[i] # " " /\ \A j \in 1..(i - 1) : s[j] = " "
             e == CHOOSE i \in b..Len(s) :
                      /\ \A j \in b..i : s[j] # " "
                      /\ (i = Len(s) \/ s[i + 1] = " ")
         IN  << SubSeq(s, b, e) >> \o SplitWs(SubSeq(s, e + 1, Len(s)))

\* The value of a string of decimal digits.
RECURSIVE DigitsVal(_)
DigitsVal(s) ==
    IF Len(s) = 0 THEN 0
    ELSE 10 * DigitsVal(SubSeq(s, 1, Len(s) - 1)) + DigitVal(s[Len(s)])

AllDigits(s) == Len(s) > 0 /\ \A i \in 1..Len(s) : IsDigit(s[i])

\* int(s): an optional sign and at least one decimal digit; anything else
\* is a ValueError.
IntOk(s) ==
    \/ AllDigits(s)
    \/ (Len(s) > 1 /\ s[1] \in { "+", "-" } /\ AllDigits(Tail(s)))

IntVal(s) ==
    IF AllDigits(s) THEN DigitsVal(s)
    ELSE IF s[1] = "-" THEN 0 - DigitsVal(Tail(s))
    ELSE DigitsVal(Tail(s))

\* ------------------------------------------------------------------------
\* tracker/logs/parser.py
\* ------------------------------------------------------------------------

\* Markers the parser looks for.
CurrentTimeMarker == << "C", "u", "r", "r", "e", "n", "t", " ", "t", "i", "m", "e" >>

ErrorMarker == << "E", "R", "R", "O", "R", ":" >>

TracebackMarker == << "T", "r", "a", "c", "e", "b", "a", "c", "k" >>

RequeueMarker ==
    << "E", "x", "i", "t", "i", "n", "g", ",", " ",
       "p", "l", "e", "a", "s", "e", " ", "r", "e", "q", "u", "e", "u", "e" >>

\* [line for line in lines if pred(line)]
RECURSIVE FilterLines(_, _)
FilterLines(lines, marker) ==
    IF Len(lines) = 0 THEN << >>
    ELSE IF Contains(Head(lines), marker)
         THEN << Head(lines) >> \o FilterLines(Tail(lines), marker)
         ELSE FilterLines(Tail(lines), marker)

\* A field of %H:%M:%S: one or two decimal digits.
TimeField(f) == Len(f) \in 1..2 /\ AllDigits(f)

\* datetime.strptime(tok, "%H:%M:%S") succeeds: three fields separated by
\* colons, hour below 24, minute and second below 60.
StrptimeOk(tok) ==
    LET f == SplitOn(tok, ":")
    IN  /\ Len(f) = 3
        /\ \A i \in 1..3 : TimeField(f[i])
        /\ DigitsVal(f[1]) <= 23
        /\ DigitsVal(f[2]) <= 59
        /\ DigitsVal(f[3]) <= 59

\* The parsed time of day, in seconds after midnight of 1900-01-01.
StrptimeVal(tok) ==
    LET f == SplitOn(tok, ":")
    IN  3600 * DigitsVal(f[1]) + 60 * DigitsVal(f[2]) + DigitsVal(f[3])

\* get_runtime with a day added to a negative difference.
get_runtime_rollover(lines) ==
    LET runtime_lines == FilterLines(lines, CurrentTimeMarker)
    IN  IF Len(runtime_lines) = 0
        THEN [ exc |-> "none", val |-> 0 ]
        ELSE LET first_split == SplitWs(runtime_lines[1])
                 last_split  == SplitWs(runtime_lines[Len(runtime_lines)])
             IN  IF Len(first_split) < 3 \/ Len(last_split) < 3
                 THEN [ exc |-> "IndexError", val |-> 0 ]
                 ELSE IF ~StrptimeOk(first_split[3]) \/ ~StrptimeOk(last_split[3])
                 THEN [ exc |-> "ValueError", val |-> 0 ]
                 ELSE LET d == StrptimeVal(last_split[3]) - StrptimeVal(first_split[3])
                      IN  [ exc |-> "none", val |-> IF d < 0 THEN d + 86400 ELSE d ]

\* get_runtime over the lines of the log: exc is the exception raised
\* ("none" when it returns), val the timedelta in seconds.
get_runtime(lines) ==
    LET runtime_lines == FilterLines(lines, CurrentTimeMarker)
    IN  IF Len(runtime_lines) = 0
        THEN [ exc |-> "none", val |-> 0 ]
        ELSE LET first_match == runtime_lines[1]
                 last_match  == runtime_lines[Len(runtime_lines)]
                 first_split == SplitWs(first_match)
                 last_split  == SplitWs(last_match)
             IN  IF Len(first_split) < 3 \/ Len(last_split) < 3
                 THEN [ exc |-> "IndexError", val |-> 0 ]
                 ELSE IF ~StrptimeOk(first_split[3]) \/ ~StrptimeOk(last_split[3])
                 THEN [ exc |-> "ValueError", val |-> 0 ]
                 ELSE [ exc |-> "none",
                        val |-> StrptimeVal(last_split[3]) - StrptimeVal(first_split[3]) ]

\* The segment taken up to the last dot instead of the first.
TimestampSegment_to_extension(filename) ==
    LET byUnderscore == SplitOn(filename, "_")
        byDot == SplitOn(byUnderscore[Len(byUnderscore)], ".")
    IN  IF Len(byDot) = 1 THEN byDot[1]
        ELSE SubSeq(byUnderscore[Len(byUnderscore)], 1,
                    Len(byUnderscore[Len(byUnderscore)]) - Len(byDot[Len(byDot)]) - 1)

\* file.name.split("_")[-1].split(".")[0]
TimestampSegment(filename) ==
    LET byUnderscore == SplitOn(filename, "_")
    IN  SplitOn(byUnderscore[Len(byUnderscore)], ".")[1]

\* get_datetime_from_filename over the file's name: val is the epoch second
\* of the datetime that fromtimestamp returns.
get_datetime_from_filename(filename) ==
    LET timestamp == TimestampSegment(filename)
    IN  IF IntOk(timestamp)
        THEN [ exc |-> "none", val |-> IntVal(timestamp) ]
        ELSE [ exc |-> "ValueError", val |-> 0 ]

\* get_error with the rejection marker looked for before the exception
\* markers.
get_error_rejection_first(lines) ==
    IF Len(lines) = 0 THEN "Empty log file"
    ELSE IF Len(FilterLines(lines, RequeueMarker)) > 0
         THEN "Pipeline Rejected"
    ELSE IF Len(FilterLines(lines, ErrorMarker)) > 0
            \/ Len(FilterLines(lines, TracebackMarker)) > 0
         THEN "Python Error"
    ELSE "None"

\* get_error over the lines of the log; "None" stands for Python's None.
get_error(lines) ==
    IF Len(lines) = 0 THEN "Empty log file"
    ELSE IF Len(FilterLines(lines, ErrorMarker)) > 0
            \/ Len(FilterLines(lines, TracebackMarker)) > 0
         THEN "Python Error"
    ELSE IF Len(FilterLines(lines, RequeueMarker)) > 0
         THEN "Pipeline Rejected"
    ELSE "None"

\* ------------------------------------------------------------------------
\* tracker/helpers/utils.py
\* ------------------------------------------------------------------------

RECURSIVE DropDots(_)
DropDots(parts) ==
    IF Len(parts) = 0 THEN << >>
    ELSE IF Head(parts) = << >> \/ Head(parts) = << "." >>
         THEN DropDots(Tail(parts))
         ELSE << Head(parts) >> \o DropDots(Tail(parts))

\* Path(file): the path as pathlib holds it, a sequence of parts. Empty
\* components and "." components are dropped; a leading "/" is the root part.
PathOf(file) ==
    LET parts == DropDots(SplitOn(file, "/"))
    IN  IF Len(file) > 0 /\ file[1] = "/" THEN << << "/" >> >> \o parts ELSE parts

RECURSIVE JoinParts(_)
JoinParts(parts) ==
    IF Len(parts) = 0 THEN << >>
    ELSE IF Len(parts) = 1 THEN parts[1]
    ELSE parts[1] \o << "/" >> \o JoinParts(Tail(parts))

\* str(path)
PathStr(path) ==
    IF Len(path) = 0 THEN << "." >>
    ELSE IF path[1] = << "/" >> THEN << "/" >> \o JoinParts(Tail(path))
    ELSE JoinParts(path)

\* path.name
PathName(path) ==
    IF Len(path) = 0 \/ path[Len(path)] = << "/" >> THEN << >> ELSE path[Len(path)]

\* p < q for two paths: pathlib compares the sequences of parts, part by
\* part as strings; a proper prefix is smaller.
PathLess(p, q) ==
    \E i \in 1..Len(q) :
        /\ i <= Len(p) + 1
        /\ \A j \in 1..(i - 1) : p[j] = q[j]
        /\ \/ i = Len(p) + 1
           \/ (i <= Len(p) /\ StrLess(p[i], q[i]))

\* One step of list.sort(): x put after the last element that is not
\* greater than it.
RECURSIVE InsertPath(_, _)
InsertPath(sorted, x) ==
    IF Len(sorted) = 0 THEN << x >>
    ELSE IF PathLess(x, sorted[Len(sorted)])
         THEN InsertPath(SubSeq(sorted, 1, Len(sorted) - 1), x)
                  \o << sorted[Len(sorted)] >>
         ELSE sorted \o << x >>

\* file_paths.sort()
RECURSIVE SortPaths(_)
SortPaths(paths) ==
    IF Len(paths) = 0 THEN << >>
    ELSE InsertPath(SortPaths(SubSeq(paths, 1, Len(paths) - 1)), paths[Len(paths)])

\* get_most_recent_file returning the first path of the sorted list.
get_most_recent_file_first(files) ==
    LET file_paths == SortPaths([ i \in 1..Len(files) |-> PathOf(files[i]) ])
    IN  IF Len(file_paths) = 0
        THEN [ exc |-> "IndexError", val |-> << >> ]
        ELSE [ exc |-> "none", val |-> file_paths[1] ]

\* get_most_recent_file(files): val is the Path returned, exc the exception
\* raised by file_paths[-1] on an empty list.
get_most_recent_file(files) ==
    LET file_paths == SortPaths([ i \in 1..Len(files) |-> PathOf(files[i]) ])
    IN  IF Len(file_paths) = 0
        THEN [ exc |-> "IndexError", val |-> << >> ]
        ELSE [ exc |-> "none", val |-> file_paths[Len(file_paths)] ]

\* ------------------------------------------------------------------------
\* The file system the tracker reads: log lines, log files, site directories
\* ------------------------------------------------------------------------

\* "Current time: " followed by a token.
CurLine(tok) == CurrentTimeMarker \o << ":", " " >> \o tok

T_10_00_00 == << "1", "0", ":", "0", "0", ":", "0", "0" >>

T_11_30_00 == << "1", "1", ":", "3", "0", ":", "0", "0" >>

T_09_15_30 == << "0", "9", ":", "1", "5", ":", "3", "0" >>

T_23_59_59 == << "2", "3", ":", "5", "9", ":", "5", "9" >>

T_00_00_00 == << "0", "0", ":", "0", "0", ":", "0", "0" >>

T_24_00_00 == << "2", "4", ":", "0", "0", ":", "0", "0" >>

LineError == ErrorMarker \o << " ", "f", "a", "i", "l", "e", "d" >>

LineTraceback ==
    TracebackMarker \o << " ", "(", "m", "o", "s", "t", " ", "r", "e", "c", "e", "n", "t",
                          " ", "c", "a", "l", "l", " ", "l", "a", "s", "t", ")", ":" >>

LineRequeue == RequeueMarker

LinePlain == << "p", "r", "o", "c", "e", "s", "s", "i", "n", "g" >>

\* "INFO Current time: 10:00:00": the marker is there, the third token is "time:".
LineShifted == << "I", "N", "F", "O", " " >> \o CurLine(T_10_00_00)

\* Subtask names (track_site_logs).
audio_process == << "a", "u", "d", "i", "o", "_", "p", "r", "o", "c", "e", "s", "s" >>

transcript_process ==
    << "t", "r", "a", "n", "s", "c", "r", "i", "p", "t", "_",
       "p", "r", "o", "c", "e", "s", "s" >>

video_process == << "v", "i", "d", "e", "o", "_", "p", "r", "o", "c", "e", "s", "s" >>

DotTxt == << ".", "t", "x", "t" >>

\* {subtask}_{segment}.txt
LogName(subtask, segment) == subtask \o << "_" >> \o segment \o DotTxt

\* Timestamp segments of the sample log files (the two of utils.py's docstring,
\* and others).
Seg_1703040196 == << "1", "7", "0", "3", "0", "4", "0", "1", "9", "6" >>

Seg_1703230348 == << "1", "7", "0", "3", "2", "3", "0", "3", "4", "8" >>

Seg_1703230500 == << "1", "7", "0", "3", "2", "3", "0", "5", "0", "0" >>

Seg_1703230600 == << "1", "7", "0", "3", "2", "3", "0", "6", "0", "0" >>

Seg_abc == << "a", "b", "c" >>

\* open(log).readlines() for the sample log files: the content goes with the
\* timestamp segment of the file's name.
ReadLines(filename) ==
    LET seg == TimestampSegment(filename)
    IN  CASE seg = Seg_1703040196 -> << CurLine(T_10_00_00), LineRequeue, CurLine(T_10_00_00) >>
          [] seg = Seg_1703230348 -> << CurLine(T_10_00_00), LinePlain, CurLine(T_11_30_00) >>
          [] seg = Seg_1703230500 -> << CurLine(T_23_59_59), LineError, CurLine(T_00_00_00) >>
          [] seg = Seg_1703230600 -> << LineShifted >>
          [] OTHER -> << >>

Seg_1703230700 == << "1", "7", "0", "3", "2", "3", "0", "7", "0", "0" >>

\* The logs of one subtask in a site directory, in directory order.
TwoLogs(subtask) ==
    << LogName(subtask, Seg_1703230348), LogName(subtask, Seg_1703040196) >>

AllSubtasks == << audio_process, transcript_process, video_process >>

\* The logs of the j-th subtask in the sample site directory.
SubtaskLogs(j) ==
    CASE j = 1 -> TwoLogs(audio_process)
      [] j = 2 -> << LogName(transcript_process, Seg_1703230500) >>
      [] j = 3 -> << LogName(video_process, Seg_1703230700) >>

\* A sample site directory (the file names in it) with logs of every subtask.
DirAll == SubtaskLogs(1) \o SubtaskLogs(2) \o SubtaskLogs(3)

\* DirAll with no log of the k-th subtask.
DirMissing(k) ==
    LET keep(j) == IF j = k THEN << >> ELSE SubtaskLogs(j)
    IN  keep(1) \o keep(2) \o keep(3)

\* DirAll and a transcript_process log whose name holds no timestamp.
DirBadName == DirAll \o << LogName(transcript_process, Seg_abc) >>

\* DirAll and a newer audio_process log whose "Current time" line is malformed.
DirBadTime == DirAll \o << LogName(audio_process, Seg_1703230600) >>

\* Entries of a task's log root: site directories, the TOTAL directory, a file.
SitePYA == << "P", "Y", "A" >>

SitePLA == << "P", "L", "A" >>

TOTAL == << "T", "O", "T", "A", "L" >>

EntryPool ==
    { [ name |-> SitePYA, is_dir |-> TRUE ],
      [ name |-> SitePLA, is_dir |-> TRUE ],
      [ name |-> TOTAL, is_dir |-> TRUE ],
      [ name |-> << "n", "o", "t", "e", "s" >>, is_dir |-> FALSE ] }

\* The most entries a log root holds.
MaxEntries == 2

\* What iterdir() may yield: the entries of the root, each once, in any order.
Listings ==
    UNION { { l \in [ 1..n -> EntryPool ] :
                \A i, j \in 1..n : i # j => l[i] # l[j] } : n \in 0..MaxEntries }

\* ------------------------------------------------------------------------
\* tracker/scripts/track_logs.py
\* ------------------------------------------------------------------------

VARIABLES
    pc,            \* where the script is
    err,           \* the exception that ended the run, "none" while it runs
    cfg,           \* config.ini: the keys that are present
    task_i,        \* position of the loop over tasks
    task,          \* the module global `task`
    roots,         \* per task, whether its log root was listed and what iterdir() yielded
    pending,       \* the entries of the current root still to visit
    site_logs,     \* track_site_logs: the site directory's name
    dir,           \* the files of that directory
    sub_i,         \* position of the loop over subtasks
    task_results,  \* the list track_site_logs builds, log_to_sheet's TaskResults
    handed,        \* the calls of log_to_sheet made so far, with their lists
    res_i,         \* log_to_sheet: position of the loop over TaskResults
    sheet,         \* the worksheet: cell values
    notes,         \*                cell notes
    writes,        \* the spreadsheet updates made by this run, in order
    arg,           \* a function under test: its argument
    ret,           \*                        its result
    last_run,      \* track_lochness: what get_last_updated returned
    now,           \*                 check_if_within_threshold's datetime.now()
    within_threshold,  \*             what check_if_within_threshold returned
    mail           \*                 the calls of cli.send_email, in order

lochness_vars == << last_run, now, within_threshold, mail >>

vars ==
    << pc, err, cfg, task_i, task, roots, pending, site_logs, dir, sub_i,
       task_results, handed, res_i, sheet, notes, writes, arg, ret, lochness_vars >>

\* track_lochness has not run.
LochnessIdle ==
    /\ last_run = [ s |-> 0, us |-> 0 ]
    /\ now = [ s |-> 0, us |-> 0 ]
    /\ within_threshold = FALSE
    /\ mail = << >>

tasks == << "daily_journal", "offsite" >>

offsite_subtasks == << audio_process, transcript_process, video_process >>

diary_subtasks == << audio_process, transcript_process >>

\* The sample site directories a pass of the given task may find.
SiteDirs(t) ==
    { DirAll, DirBadName, DirBadTime }
        \cup { DirMissing(k) : k \in 1..(IF t = "offsite" THEN 3 ELSE 2) }

\* str(datetime): the date and time to the second, and the microseconds,
\* which are printed only when they are not zero.
StrDatetime(dt) == [ ymdhms |-> dt.s, micro |-> dt.us, has_micro |-> dt.us # 0 ]

\* str(timedelta)
StrTimedelta(seconds) == [ seconds |-> seconds ]

\* datetime.fromtimestamp(n)
FromTimestamp(n) == [ s |-> n, us |-> 0 ]

\* What datetime.now() may return when the run completes.
NowSamples == { [ s |-> 1703300000, us |-> 0 ], [ s |-> 1703300000, us |-> 250000 ] }

\* glob(str(site_logs / f"{subtask}_*.txt")): the files of the directory
\* whose name starts with "{subtask}_" and ends with ".txt", as paths.
RECURSIVE glob(_, _, _)
glob(site, files, subtask) ==
    IF Len(files) = 0 THEN << >>
    ELSE LET name == Head(files)
             prefix == subtask \o << "_" >>
             hit == /\ StartsWith(name, prefix)
                    /\ EndsWith(name, DotTxt)
                    /\ Len(name) >= Len(prefix) + Len(DotTxt)
         IN  (IF hit THEN << site \o << "/" >> \o name >> ELSE << >>)
                 \o glob(site, Tail(files), subtask)

\* parser.get_logs(log): the text of the log, for the cell's note.
get_logs(lines) == lines

\* status = parser.get_error(log); None becomes "No errors".
site_status(lines) ==
    LET status == get_error(lines)
    IN  IF status = "None" THEN "No errors" ELSE status

\* One iteration of track_site_logs's loop over the subtasks: the exception
\* it raises ("none" if none) and the TaskResults it appends.
subtask_result(t, site, files, subtask) ==
    LET pattern == glob(site, files, subtask)
        recent_log_file == get_most_recent_file(pattern).val
        lines == ReadLines(PathName(recent_log_file))
        runtime == get_runtime(lines)
        run_time == get_datetime_from_filename(PathName(recent_log_file))
    IN  IF Len(pattern) = 0 THEN [ exc |-> "FileNotFoundError" ]
        ELSE IF runtime.exc # "none" THEN [ exc |-> runtime.exc ]
        ELSE IF run_time.exc # "none" THEN [ exc |-> run_time.exc ]
        ELSE [ exc |-> "none",
               val |-> [ task |-> t,
                         subtask |-> subtask,
                         site_id |-> SubSeq(site, Len(site) - 1, Len(site)),
                         runtime |-> runtime.val,
                         status |-> site_status(lines),
                         last_run |-> FromTimestamp(run_time.val),
                         logs |-> get_logs(lines) ] ]

\* The table of base columns with daily_journal's transcript_process two
\* columns early, inside the columns of its audio_process.
sub_tasks_col_idx_overlapping(t, subtask) ==
    IF t = "offsite"
    THEN CASE subtask = audio_process -> 7
           [] subtask = transcript_process -> 10
           [] subtask = video_process -> 13
           [] OTHER -> 0
    ELSE CASE subtask = audio_process -> 20
           [] subtask = transcript_process -> 21
           [] OTHER -> 0

\* The table of base columns with the two tasks interchanged.
sub_tasks_col_idx_swapped(t, subtask) ==
    IF t = "daily_journal"
    THEN CASE subtask = audio_process -> 7
           [] subtask = transcript_process -> 10
           [] subtask = video_process -> 13
           [] OTHER -> 0
    ELSE CASE subtask = audio_process -> 20
           [] subtask = transcript_process -> 23
           [] OTHER -> 0

\* log_to_sheet's table of base columns, per task; 0 for a missing key.
sub_tasks_col_idx(t, subtask) ==
    IF t = "offsite"
    THEN CASE subtask = audio_process -> 7
           [] subtask = transcript_process -> 10
           [] subtask = video_process -> 13
           [] OTHER -> 0
    ELSE CASE subtask = audio_process -> 20
           [] subtask = transcript_process -> 23
           [] OTHER -> 0

\* sheets.get_row_idx(sheet, col=1, value=site_id): the row whose first
\* column holds the site.
get_row_idx(site_id) ==
    CASE site_id = << "Y", "A" >> -> 3
      [] site_id = << "L", "A" >> -> 4
      [] OTHER -> 5

SheetRows == 3..5

SheetCols == (7..15) \cup { 18 } \cup (20..25)

SheetCells == SheetRows \X SheetCols

\* log_completion's cell.
HeartbeatRow == 3

HeartbeatCol == 18

\* sheets.update_cell / sheets.update_note
update_cell(row_idx, col_idx, value) ==
    /\ sheet' = [ sheet EXCEPT ![<< row_idx, col_idx >>] = value ]
    /\ writes' = Append(writes, [ op |-> "update_cell", row |-> row_idx,
                                  col |-> col_idx, value |-> value ])
    /\ UNCHANGED notes

update_note(row_idx, col_idx, note) ==
    /\ notes' = [ notes EXCEPT ![<< row_idx, col_idx >>] = note ]
    /\ writes' = Append(writes, [ op |-> "update_note", row |-> row_idx,
                                  col |-> col_idx, value |-> note ])
    /\ UNCHANGED sheet

\* The spreadsheet as a run finds it.
SheetInit ==
    /\ sheet = [ c \in SheetCells |->
                   IF c = << HeartbeatRow, HeartbeatCol >>
                   THEN StrDatetime([ s |-> 1703200000, us |-> 0 ])
                   ELSE [ blank |-> TRUE ] ]
    /\ notes = [ c \in SheetCells |-> << >> ]
    /\ writes = << >>

\* An exception that is caught and noted, the run going on with the next site.
Raise_and_go_on(e) == pc' = "sites" /\ err' = e

\* An exception: nothing in the script catches one, the run ends.
Raise(e) == pc' = "error" /\ err' = e

Init ==
    /\ pc = "main"
    /\ err = "none"
    /\ cfg \in [ network : BOOLEAN, log_source_dir : SUBSET { "daily_journal", "offsite" } ]
    /\ LochnessIdle
    /\ task_i = 0
    /\ task = "unset"
    /\ roots = [ t \in { "daily_journal", "offsite" } |-> [ read |-> FALSE, entries |-> << >> ] ]
    /\ pending = << >>
    /\ site_logs = << >>
    /\ dir = << >>
    /\ sub_i = 0
    /\ task_results = << >>
    /\ handed = << >>
    /\ res_i = 0
    /\ SheetInit
    /\ arg = << >>
    /\ ret = << >>

\* __main__: network = config_params["network"]
Main ==
    /\ pc = "main"
    /\ IF cfg.network
       THEN pc' = "tasks" /\ task_i' = 1 /\ err' = err
       ELSE Raise("KeyError") /\ task_i' = task_i
    /\ UNCHANGED << cfg, lochness_vars, task, roots, pending, site_logs, dir, sub_i, task_results,
                    handed, res_i, sheet, notes, writes, arg, ret >>

\* for task in tasks: track_logs(...) up to the directory listing; after
\* the last task, on to log_completion.
ForTask ==
    /\ pc = "tasks"
    /\ IF task_i > Len(tasks)
       THEN /\ pc' = "completion"
            /\ UNCHANGED << err, task, roots, pending >>
       ELSE /\ task' = tasks[task_i]
            /\ IF tasks[task_i] \in cfg.log_source_dir
               THEN \E listing \in Listings :
                        /\ roots' = [ roots EXCEPT ![tasks[task_i]] =
                                                      [ read |-> TRUE, entries |-> listing ] ]
                        /\ pending' = listing
                        /\ pc' = "sites"
                        /\ err' = err
               ELSE Raise("KeyError") /\ UNCHANGED << roots, pending >>
    /\ UNCHANGED << cfg, lochness_vars, task_i, site_logs, dir, sub_i, task_results, handed, res_i,
                    sheet, notes, writes, arg, ret >>

\* track_logs: the entries that are tracked as sites.
is_site_with_total(site) == site.is_dir

is_site(site) == site.is_dir /\ site.name # TOTAL

\* for site in network_logs_path.iterdir(): skip files and TOTAL, else enter
\* track_site_logs (up to the loop over the subtasks).
ForSite ==
    /\ pc = "sites"
    /\ IF pending = << >>
       THEN /\ task_i' = task_i + 1
            /\ pc' = "tasks"
            /\ UNCHANGED << err, pending, site_logs, dir, sub_i, task_results >>
       ELSE LET site == Head(pending)
            IN  /\ pending' = Tail(pending)
                /\ task_i' = task_i
                /\ IF ~is_site(site)
                   THEN UNCHANGED << pc, err, site_logs, dir, sub_i, task_results >>
                   ELSE /\ site_logs' = site.name
                        /\ \E d \in SiteDirs(task) : dir' = d
                        /\ IF task \in { "offsite", "daily_journal" }
                           THEN /\ pc' = "subtasks"
                                /\ err' = err
                                /\ sub_i' = 1
                                /\ task_results' = << >>
                           ELSE /\ Raise("ValueError")
                                /\ UNCHANGED << sub_i, task_results >>
    /\ UNCHANGED << cfg, lochness_vars, task, roots, handed, res_i, sheet, notes, writes, arg, ret >>

\* track_site_logs: the subtasks of its task.
Subtasks(t) == IF t = "offsite" THEN offsite_subtasks ELSE diary_subtasks

\* The loop over the subtasks, a subtask with no log passed over.
TrackSubtask_skipping ==
    /\ pc = "subtasks"
    /\ LET r == subtask_result(task, site_logs, dir, Subtasks(task)[sub_i])
           last == sub_i = Len(Subtasks(task))
       IN  IF r.exc = "FileNotFoundError"
           THEN /\ UNCHANGED << err, task_results >>
                /\ sub_i' = sub_i + 1
                /\ pc' = IF last THEN "handoff" ELSE "subtasks"
           ELSE IF r.exc # "none"
           THEN Raise(r.exc) /\ UNCHANGED << sub_i, task_results >>
           ELSE /\ task_results' = Append(task_results, r.val)
                /\ sub_i' = sub_i + 1
                /\ pc' = IF last THEN "handoff" ELSE "subtasks"
                /\ err' = err
    /\ UNCHANGED << cfg, lochness_vars, task_i, task, roots, pending, site_logs, dir, handed, res_i,
                    sheet, notes, writes, arg, ret >>

\* track_site_logs: one iteration of the loop over the subtasks.
TrackSubtask ==
    /\ pc = "subtasks"
    /\ LET r == subtask_result(task, site_logs, dir, Subtasks(task)[sub_i])
       IN  IF r.exc # "none"
           THEN Raise(r.exc) /\ UNCHANGED << sub_i, task_results >>
           ELSE /\ task_results' = Append(task_results, r.val)
                /\ sub_i' = sub_i + 1
                /\ pc' = IF sub_i = Len(Subtasks(task)) THEN "handoff" ELSE "subtasks"
                /\ err' = err
    /\ UNCHANGED << cfg, lochness_vars, task_i, task, roots, pending, site_logs, dir, handed, res_i,
                    sheet, notes, writes, arg, ret >>

\* track_site_logs: log_to_sheet(config_file, network, TaskResults=task_results)
CallLogToSheet ==
    /\ pc = "handoff"
    /\ handed' = Append(handed, [ task |-> task, site |-> site_logs,
                                  results |-> task_results ])
    /\ res_i' = 1
    /\ pc' = "sink"
    /\ UNCHANGED << err, cfg, lochness_vars, task_i, task, roots, pending, site_logs, dir, sub_i,
                    task_results, sheet, notes, writes, arg, ret >>

\* log_to_sheet: the head of the loop over TaskResults, up to the first
\* update: the row of the site, the table of the global task, the base
\* column of the subtask.
LogToSheetNext ==
    /\ pc = "sink"
    /\ IF res_i > Len(task_results)
       THEN pc' = "sites" /\ err' = err
       ELSE IF task \notin { "offsite", "daily_journal" }
            THEN Raise("NotImplementedError")
            ELSE IF sub_tasks_col_idx(task, task_results[res_i].subtask) = 0
                 THEN Raise("KeyError")
                 ELSE pc' = "update_status" /\ err' = err
    /\ UNCHANGED << cfg, lochness_vars, task_i, task, roots, pending, site_logs, dir, sub_i,
                    task_results, handed, res_i, sheet, notes, writes, arg, ret >>

row_idx == get_row_idx(task_results[res_i].site_id)

subtask_col_idx == sub_tasks_col_idx(task, task_results[res_i].subtask)

status_col_idx == subtask_col_idx

last_run_col_idx == subtask_col_idx + 1

runtime_col_idx == subtask_col_idx + 2

SinkFrame ==
    UNCHANGED << err, cfg, lochness_vars, task_i, task, roots, pending, site_logs, dir, sub_i,
                 task_results, handed, arg, ret >>

UpdateStatus ==
    /\ pc = "update_status"
    /\ update_cell(row_idx, status_col_idx, [ text |-> task_results[res_i].status ])
    /\ pc' = "update_note"
    /\ UNCHANGED res_i
    /\ SinkFrame

UpdateNote ==
    /\ pc = "update_note"
    /\ update_note(row_idx, status_col_idx, task_results[res_i].logs)
    /\ pc' = "update_last_run"
    /\ UNCHANGED res_i
    /\ SinkFrame

UpdateLastRun ==
    /\ pc = "update_last_run"
    /\ update_cell(row_idx, last_run_col_idx, StrDatetime(task_results[res_i].last_run))
    /\ pc' = "update_runtime"
    /\ UNCHANGED res_i
    /\ SinkFrame

UpdateRuntime ==
    /\ pc = "update_runtime"
    /\ update_cell(row_idx, runtime_col_idx, StrTimedelta(task_results[res_i].runtime))
    /\ pc' = "sink"
    /\ res_i' = res_i + 1
    /\ SinkFrame

\* log_completion(config_file, network), then "Done!"
log_completion ==
    /\ pc = "completion"
    /\ \E current_time \in NowSamples :
           update_cell(HeartbeatRow, HeartbeatCol, StrDatetime(current_time))
    /\ pc' = "done"
    /\ UNCHANGED res_i
    /\ SinkFrame

log_to_sheet ==
    LogToSheetNext \/ UpdateStatus \/ UpdateNote \/ UpdateLastRun \/ UpdateRuntime

track_site_logs == TrackSubtask \/ CallLogToSheet

Next == Main \/ ForTask \/ ForSite \/ track_site_logs \/ log_to_sheet \/ log_completion

Spec == Init /\ [][Next]_vars

\* ------------------------------------------------------------------------
\* The parser's functions applied to sample logs
\* ------------------------------------------------------------------------

\* The most lines of a sample log.
MaxLines == 3

\* "ERROR: Exiting, please requeue": both markers in one line.
LineErrorRequeue == ErrorMarker \o << " " >> \o RequeueMarker

\* All sequences of at most n elements of S.
SeqsUpTo(S, n) == UNION { [ 1..k -> S ] : k \in 0..n }

\* The variables of the log-tracking run, at rest.
RunIdle ==
    /\ err = "none"
    /\ cfg = [ network |-> TRUE, log_source_dir |-> { } ]
    /\ LochnessIdle
    /\ task_i = 0
    /\ task = "unset"
    /\ roots = [ t \in { "daily_journal", "offsite" } |-> [ read |-> FALSE, entries |-> << >> ] ]
    /\ pending = << >>
    /\ site_logs = << >>
    /\ dir = << >>
    /\ sub_i = 0
    /\ task_results = << >>
    /\ handed = << >>
    /\ res_i = 0
    /\ SheetInit

RunFrame ==
    UNCHANGED << err, cfg, lochness_vars, task_i, task, roots, pending, site_logs, dir, sub_i,
                 task_results, handed, res_i, sheet, notes, writes, arg >>

\* Lines with and without the markers of get_error.
ErrorSampleLines ==
    { LineError, LineTraceback, LineRequeue, LineErrorRequeue, LinePlain,
      CurLine(T_10_00_00), << >> }

ErrorInit ==
    /\ pc = "call"
    /\ arg \in SeqsUpTo(ErrorSampleLines, MaxLines)
    /\ ret = << >>
    /\ RunIdle

\* parser.get_error(log) on a log with the lines arg.
CallGetError ==
    /\ pc = "call"
    /\ ret' = [ fn |-> "get_error", val |-> get_error(arg) ]
    /\ pc' = "returned"
    /\ RunFrame

\* track_site_logs's status for a log with the lines arg.
CallSiteStatus ==
    /\ pc = "call"
    /\ ret' = [ fn |-> "site_status", val |-> site_status(arg) ]
    /\ pc' = "returned"
    /\ RunFrame

ErrorNext == CallGetError \/ CallSiteStatus

ErrorSpec == ErrorInit /\ [][ErrorNext]_vars

\* The sample lines that hold an exception marker, a rejection marker.
ExceptionLines == { LineError, LineTraceback, LineErrorRequeue }

RejectionLines == { LineRequeue, LineErrorRequeue }

HasLineIn(lines, S) == \E i \in 1..Len(lines) : lines[i] \in S

\* What the classification of a log is to be.
ExpectedError(lines) ==
    IF Len(lines) = 0 THEN "Empty log file"
    ELSE IF HasLineIn(lines, ExceptionLines) THEN "Python Error"
    ELSE IF HasLineIn(lines, RejectionLines) THEN "Pipeline Rejected"
    ELSE "None"

\* C1: get_error returns, for every log, "Empty log file" for zero lines,
\* else "Python Error" if a line holds "ERROR:" or "Traceback" (also when a
\* line holds "Exiting, please requeue"), else "Pipeline Rejected" if a line
\* holds "Exiting, please requeue", else None; and the aggregator's status
\* is "No errors" for None and the classification otherwise.
C1_Classification ==
    pc = "returned" =>
        /\ ret.fn = "get_error" => ret.val = ExpectedError(arg)
        /\ ret.fn = "site_status" =>
               ret.val = IF ExpectedError(arg) = "None" THEN "No errors"
                         ELSE ExpectedError(arg)

\* C1's case: a log with an exception line and, elsewhere, a rejection line,
\* classified "Python Error".
C1_Witness ==
    /\ pc = "returned"
    /\ ret.fn = "get_error"
    /\ ret.val = "Python Error"
    /\ \E i, j \in 1..Len(arg) : arg[i] = LineRequeue /\ arg[j] = LineTraceback /\ i < j

\* Lines with and without "Current time", well-formed and malformed.
RuntimeSampleLines ==
    { CurLine(T_10_00_00), CurLine(T_11_30_00), CurLine(T_23_59_59), CurLine(T_00_00_00),
      CurLine(T_24_00_00), LineShifted, CurrentTimeMarker, LinePlain }

RuntimeInit ==
    /\ pc = "call"
    /\ arg \in SeqsUpTo(RuntimeSampleLines, MaxLines)
    /\ ret = << >>
    /\ RunIdle

\* parser.get_runtime(log) on a log with the lines arg.
CallGetRuntime ==
    /\ pc = "call"
    /\ ret' = [ fn |-> "get_runtime", val |-> get_runtime(arg) ]
    /\ pc' = "returned"
    /\ RunFrame

RuntimeNext == CallGetRuntime

RuntimeSpec == RuntimeInit /\ [][RuntimeNext]_vars

\* The sample lines whose third token is a time of day, with that time in
\* seconds after midnight.
TimedLines ==
    { CurLine(T_10_00_00), CurLine(T_11_30_00), CurLine(T_23_59_59), CurLine(T_00_00_00) }

SecondsOf(line) ==
    CASE line = CurLine(T_10_00_00) -> 10 * 3600
      [] line = CurLine(T_11_30_00) -> 11 * 3600 + 30 * 60
      [] line = CurLine(T_23_59_59) -> 23 * 3600 + 59 * 60 + 59
      [] line = CurLine(T_00_00_00) -> 0

\* The positions of the lines of a sample log that hold "Current time".
MatchingAt(lines) == { i \in 1..Len(lines) : lines[i] # LinePlain }

SetMin(S) == CHOOSE x \in S : \A y \in S : x <= y

SetMax(S) == CHOOSE x \in S : \A y \in S : x >= y

\* C6: get_runtime returns a zero duration, without an error, when no line
\* holds "Current time"; otherwise, the third tokens of the first and of the
\* last matching line being times of day, it returns last minus first, not
\* corrected for a day rollover: zero for one matching line, 1:30:00 for
\* 10:00:00 and 11:30:00, negative when the last is earlier, strictly between
\* -24h and +24h; the matching lines in between, well-formed or not, do not
\* matter.
C6_Runtime ==
    (pc = "returned" /\ ret.fn = "get_runtime") =>
        LET at == MatchingAt(arg)
        IN  /\ at = { } => ret.val = [ exc |-> "none", val |-> 0 ]
            /\ (at # { } /\ arg[SetMin(at)] \in TimedLines /\ arg[SetMax(at)] \in TimedLines) =>
                   /\ ret.val.exc = "none"
                   /\ ret.val.val = SecondsOf(arg[SetMax(at)]) - SecondsOf(arg[SetMin(at)])
                   /\ Cardinality(at) = 1 => ret.val.val = 0
                   /\ SecondsOf(arg[SetMax(at)]) < SecondsOf(arg[SetMin(at)]) => ret.val.val < 0
            /\ arg = << CurLine(T_10_00_00), CurLine(T_11_30_00) >> =>
                   ret.val = [ exc |-> "none", val |-> 3600 + 30 * 60 ]
            /\ ret.val.exc = "none" => (ret.val.val > 0 - 24 * 3600 /\ ret.val.val < 24 * 3600)

\* C6's case: the last time of day is earlier than the first and a malformed
\* matching line lies between them; the result is negative.
C6_Witness ==
    /\ pc = "returned"
    /\ ret.fn = "get_runtime"
    /\ arg = << CurLine(T_23_59_59), LineShifted, CurLine(T_00_00_00) >>
    /\ ret.val = [ exc |-> "none", val |-> 0 - (24 * 3600 - 1) ]

\* ------------------------------------------------------------------------
\* The filename timestamp extractor applied to sample names
\* ------------------------------------------------------------------------

\* The longest sample name.
MaxNameLen == 4

NameChars == { "a", "1", "2", "_", ".", "-" }

\* The sample names: every string of at most MaxNameLen of these characters,
\* and "abc".
SampleNames ==
    (SeqsUpTo(NameChars, MaxNameLen) \ { << >> }) \cup { Seg_abc }

\* The candidate log of the sample site directory: audio_process_{arg}.txt
Candidate == LogName(audio_process, arg)

\* A pass of track_site_logs over an offsite site directory whose only file
\* is the candidate, about to start on its first subtask.
NameInit ==
    /\ pc = "subtasks"
    /\ arg \in SampleNames
    /\ ret = << >>
    /\ err = "none"
    /\ cfg = [ network |-> TRUE, log_source_dir |-> { "daily_journal", "offsite" } ]
    /\ LochnessIdle
    /\ task_i = 2
    /\ task = "offsite"
    /\ roots = [ t \in { "daily_journal", "offsite" } |-> [ read |-> TRUE, entries |-> << >> ] ]
    /\ pending = << >>
    /\ site_logs = SitePYA
    /\ dir = << Candidate >>
    /\ sub_i = 1
    /\ task_results = << >>
    /\ handed = << >>
    /\ res_i = 0
    /\ SheetInit

\* parser.get_datetime_from_filename on a file named arg.
CallGetDatetime ==
    /\ pc = "subtasks"
    /\ sub_i = 1
    /\ ret = << >>
    /\ ret' = [ fn |-> "get_datetime_from_filename", val |-> get_datetime_from_filename(arg) ]
    /\ UNCHANGED pc
    /\ RunFrame

NameNext == CallGetDatetime \/ TrackSubtask

NameSpec == NameInit /\ [][NameNext]_vars

\* The position of the last underscore of a name, 0 if it has none.
LastUnderscore(name) ==
    IF \A i \in 1..Len(name) : name[i] # "_" THEN 0
    ELSE SetMax({ i \in 1..Len(name) : name[i] = "_" })

\* The position of the first dot after position u, Len(name) + 1 if none.
FirstDotAfter(name, u) ==
    IF \A i \in (u + 1)..Len(name) : name[i] # "." THEN Len(name) + 1
    ELSE SetMin({ i \in (u + 1)..Len(name) : name[i] = "." })

\* The position of the last dot after position u (where the extension
\* starts), Len(name) + 1 if none.
LastDotAfter(name, u) ==
    IF \A i \in (u + 1)..Len(name) : name[i] # "." THEN Len(name) + 1
    ELSE SetMax({ i \in (u + 1)..Len(name) : name[i] = "." })

\* The segment between the last underscore and the first dot after it.
SegmentToFirstDot(name) ==
    SubSeq(name, LastUnderscore(name) + 1, FirstDotAfter(name, LastUnderscore(name)) - 1)

\* The segment between the last underscore and the extension.
SegmentToExtension(name) ==
    SubSeq(name, LastUnderscore(name) + 1, LastDotAfter(name, LastUnderscore(name)) - 1)

\* What the extractor is to do with a name whose segment is seg.
ExpectedDatetime(seg) ==
    IF IntOk(seg) THEN [ exc |-> "none", val |-> IntVal(seg) ]
    ELSE [ exc |-> "ValueError", val |-> 0 ]

MaxFiles == 2

A_(segment) == LogName(<< "a" >>, segment)

A_100 == A_(<< "1", "0", "0" >>)

A_200 == A_(<< "2", "0", "0" >>)

A_50 == A_(<< "5", "0" >>)

A_0000000050 == A_(<< "0", "0", "0", "0", "0", "0", "0", "0", "5", "0" >>)

A_0000000100 == A_(<< "0", "0", "0", "0", "0", "0", "0", "1", "0", "0" >>)

A_0000000200 == A_(<< "0", "0", "0", "0", "0", "0", "0", "2", "0", "0" >>)

\* Names of the form a_{timestamp}.txt, in no directory.
ConventionNames == { A_100, A_200, A_50, A_0000000050, A_0000000100, A_0000000200 }

\* s/a_100.txt and s/a_50.txt (one directory), ./a_50.txt (the current
\* directory, spelled out), s/a_9.txt and s-b/a_1.txt (two directories).
InDirS(name) == << "s", "/" >> \o name

SamplePaths ==
    ConventionNames
        \cup { InDirS(A_100), InDirS(A_50), << ".", "/" >> \o A_50,
               InDirS(A_(<< "9" >>)), << "s", "-", "b", "/" >> \o A_(<< "1" >>) }

SelectorInit ==
    /\ pc = "call"
    /\ arg \in SeqsUpTo(SamplePaths, MaxFiles)
    /\ ret = << >>
    /\ RunIdle

\* utils.get_most_recent_file(files) on the list arg.
CallGetMostRecentFile ==
    /\ pc = "call"
    /\ ret' = [ fn |-> "get_most_recent_file", val |-> get_most_recent_file(arg) ]
    /\ pc' = "returned"
    /\ RunFrame

SelectorNext == CallGetMostRecentFile

SelectorSpec == SelectorInit /\ [][SelectorNext]_vars

\* The directory part of a path string: up to its last "/" (empty if none).
DirPart(file) ==
    IF \A i \in 1..Len(file) : file[i] # "/" THEN << >>
    ELSE SubSeq(file, 1, SetMax({ i \in 1..Len(file) : file[i] = "/" }))

\* The file part of a path string: after its last "/".
FilePart(file) == SubSeq(file, Len(DirPart(file)) + 1, Len(file))

\* The candidates are in one directory, written the same way.
OneDirectory(files) == \A i, j \in 1..Len(files) : DirPart(files[i]) = DirPart(files[j])

\* No candidate is greater, as a string, than s.
StringLast(files, s) == \A i \in 1..Len(files) : ~StrLess(s, files[i])

C5_MostRecent ==
    (pc = "returned" /\ arg # << >>
         /\ \A i \in 1..Len(arg) : arg[i] \in ConventionNames) =>
        /\ ret.val.exc = "none"
        /\ \A i \in 1..Len(arg) :
               IntVal(TimestampSegment(arg[i]))
                   <= IntVal(TimestampSegment(PathName(ret.val.val)))

\* ------------------------------------------------------------------------
\* The reporting sink applied to sample lists of TaskResults
\* ------------------------------------------------------------------------

\* The most TaskResults in a sample list.
MaxResults == 2

\* A TaskResults object of the given task, subtask and site.
SampleResult(t, subtask, site_id) ==
    [ task |-> t, subtask |-> subtask, site_id |-> site_id,
      runtime |-> 3600 + 30 * 60, status |-> "No errors",
      last_run |-> FromTimestamp(1703230348), logs |-> << LinePlain >> ]

\* The results track_site_logs can make for a task; for a task it does not
\* know, results of any subtask.
SampleResults(t) ==
    LET subtasks == IF t \in { "offsite", "daily_journal" } THEN Subtasks(t)
                    ELSE AllSubtasks
    IN  { SampleResult(t, subtasks[k], id) :
              k \in 1..Len(subtasks), id \in { << "Y", "A" >>, << "L", "A" >> } }

\* log_to_sheet is entered with a list of results of the global task.
SinkInit ==
    /\ pc = "sink"
    /\ err = "none"
    /\ cfg = [ network |-> TRUE, log_source_dir |-> { "daily_journal", "offsite" } ]
    /\ LochnessIdle
    /\ task_i = 0
    /\ task \in { "offsite", "daily_journal", "other" }
    /\ roots = [ t \in { "daily_journal", "offsite" } |-> [ read |-> FALSE, entries |-> << >> ] ]
    /\ pending = << >>
    /\ site_logs = << >>
    /\ dir = << >>
    /\ sub_i = 0
    /\ task_results \in SeqsUpTo(SampleResults(task), MaxResults)
    /\ handed = << >>
    /\ res_i = 1
    /\ SheetInit
    /\ arg = << >>
    /\ ret = << >>

SinkSpec == SinkInit /\ [][log_to_sheet]_vars

\* The base column of each subtask, per task category.
ExpectedBase(t, subtask) ==
    CASE t = "offsite" /\ subtask = audio_process -> 7
      [] t = "offsite" /\ subtask = transcript_process -> 10
      [] t = "offsite" /\ subtask = video_process -> 13
      [] t = "daily_journal" /\ subtask = audio_process -> 20
      [] t = "daily_journal" /\ subtask = transcript_process -> 23

\* The four writes of one result: status and note at the base column of its
\* own task's table, last run at base + 1, runtime at base + 2, in its
\* site's row.
ExpectedWrites(r) ==
    LET row == get_row_idx(r.site_id)
        base == ExpectedBase(r.task, r.subtask)
    IN  << [ op |-> "update_cell", row |-> row, col |-> base,
             value |-> [ text |-> r.status ] ],
           [ op |-> "update_note", row |-> row, col |-> base, value |-> r.logs ],
           [ op |-> "update_cell", row |-> row, col |-> base + 1,
             value |-> StrDatetime(r.last_run) ],
           [ op |-> "update_cell", row |-> row, col |-> base + 2,
             value |-> StrTimedelta(r.runtime) ] >>

RECURSIVE ExpectedWritesOf(_)
ExpectedWritesOf(results) ==
    IF Len(results) = 0 THEN << >>
    ELSE ExpectedWrites(Head(results)) \o ExpectedWritesOf(Tail(results))

\* The writes log_to_sheet has made of the result it is at.
WritesUnderWay ==
    CASE pc = "update_note" -> 1
      [] pc = "update_last_run" -> 2
      [] pc = "update_runtime" -> 3
      [] OTHER -> 0

\* C9: log_to_sheet makes, for every result, exactly four writes in the row
\* of the result's site (status and note at the base column that the table
\* of the result's own task gives its subtask, last run at base + 1, runtime
\* at base + 2), result after result; with an unrecognised task it raises
\* before it writes any cell of the result.
C9_FourWrites ==
    /\ pc # "error" =>
           writes = ExpectedWritesOf(SubSeq(task_results, 1, res_i - 1))
                        \o (IF WritesUnderWay = 0 THEN << >>
                            ELSE SubSeq(ExpectedWrites(task_results[res_i]), 1, WritesUnderWay))
    /\ pc = "sites" => res_i = Len(task_results) + 1
    /\ pc = "error" =>
           /\ err = "NotImplementedError"
           /\ task \notin { "offsite", "daily_journal" }
           /\ writes = << >>
           /\ \A c \in SheetCells : c # << HeartbeatRow, HeartbeatCol >> => sheet[c] = [ blank |-> TRUE ]
    /\ (task \notin { "offsite", "daily_journal" } /\ task_results # << >>) =>
           (writes = << >> /\ pc \in { "sink", "error" })

\* C9's case: two daily_journal results of different sites, each written
\* with its four writes.
C9_Witness ==
    /\ pc = "sites"
    /\ task = "daily_journal"
    /\ Len(task_results) = 2
    /\ task_results[1].site_id # task_results[2].site_id
    /\ Len(writes) = 8
    /\ sheet[<< 4, 24 >>] = StrDatetime(FromTimestamp(1703230348))

\* ---------------------------------------------------------------------
\* The run of the entry point: passes, hand-offs and the order of writes.

\* The site directories among the entries of a log root of task t, in the
\* order of the listing: directories, the one named TOTAL left out.
RECURSIVE ExpectedSites(_, _)
ExpectedSites(t, entries) ==
    IF Len(entries) = 0 THEN << >>
    ELSE (IF Head(entries).is_dir /\ Head(entries).name # << "T", "O", "T", "A", "L" >>
          THEN << [ task |-> t, site |-> Head(entries).name ] >>
          ELSE << >>) \o ExpectedSites(t, Tail(entries))

\* The entries of task t's log root that the run has taken from its listing.
Consumed(t) ==
    IF ~roots[t].read THEN << >>
    ELSE IF t = task
         THEN SubSeq(roots[t].entries, 1, Len(roots[t].entries) - Len(pending))
         ELSE roots[t].entries

\* The site passes begun so far, daily_journal's before offsite's.
Visited ==
    ExpectedSites("daily_journal", Consumed("daily_journal"))
        \o ExpectedSites("offsite", Consumed("offsite"))

PassErrors == { "FileNotFoundError", "ValueError", "IndexError" }

\* A pass is under way, or has raised: it has handed nothing.
PassOpen ==
    \/ pc \in { "subtasks", "handoff" }
    \/ pc = "error" /\ err \in PassErrors

\* One hand-off per finished pass, in the order of the passes, and none for
\* a pass under way or raised.
HandedMatches ==
    /\ Len(handed) = Len(Visited) - (IF PassOpen THEN 1 ELSE 0)
    /\ \A i \in 1..Len(handed) :
           /\ handed[i].task = Visited[i].task
           /\ handed[i].site = Visited[i].site

\* The required subtasks of a task category, in the declared order.
ExpectedSubtasks(t) ==
    IF t = "offsite"
    THEN << audio_process, transcript_process, video_process >>
    ELSE << audio_process, transcript_process >>

\* The site directory holds a file "{subtask}_*.txt".
HasLog(files, subtask) ==
    \E i \in 1..Len(files) :
        /\ Len(files[i]) >= Len(subtask) + 5
        /\ SubSeq(files[i], 1, Len(subtask) + 1) = subtask \o << "_" >>
        /\ SubSeq(files[i], Len(files[i]) - 3, Len(files[i])) = << ".", "t", "x", "t" >>

\* The list is one result per required subtask of t at the site, in order.
OnePerSubtask(t, site, results, n) ==
    /\ Len(results) = n
    /\ \A k \in 1..n :
           /\ results[k].task = t
           /\ results[k].subtask = ExpectedSubtasks(t)[k]
           /\ results[k].site_id = SubSeq(site, Len(site) - 1, Len(site))

\* C2: a pass of track_site_logs for a site and a recognised task either
\* hands the sink exactly one result per required subtask, in the declared
\* order (3 for offsite, 2 for daily_journal), or raises and hands nothing;
\* a required subtask whose glob matches no file makes the pass raise, it
\* is never left out of the list.
C2_PassOutcomes ==
    /\ HandedMatches
    /\ \A i \in 1..Len(handed) :
           /\ handed[i].task \in { "offsite", "daily_journal" }
           /\ OnePerSubtask(handed[i].task, handed[i].site, handed[i].results,
                            IF handed[i].task = "offsite" THEN 3 ELSE 2)
    /\ pc = "subtasks" =>
           /\ OnePerSubtask(task, site_logs, task_results, sub_i - 1)
           /\ \A k \in 1..(sub_i - 1) : HasLog(dir, ExpectedSubtasks(task)[k])
    /\ pc \in { "handoff", "sink", "update_status", "update_note",
                "update_last_run", "update_runtime" } =>
           \A k \in 1..Len(ExpectedSubtasks(task)) : HasLog(dir, ExpectedSubtasks(task)[k])
    /\ (pc = "error" /\ err \in PassErrors) =>
           /\ sub_i <= Len(ExpectedSubtasks(task))
           /\ Len(task_results) = sub_i - 1
           /\ (err = "FileNotFoundError") <=> ~HasLog(dir, ExpectedSubtasks(task)[sub_i])

\* C2's case: after a daily_journal pass handed its two results, an offsite
\* pass finds no log of its third subtask and raises, handing nothing.
C2_Witness ==
    /\ pc = "error"
    /\ err = "FileNotFoundError"
    /\ task = "offsite"
    /\ Len(task_results) = 2
    /\ Len(handed) = 1
    /\ handed[1].task = "daily_journal"
    /\ Len(handed[1].results) = 2

\* The results of the passes handed to the sink so far, in order.
RECURSIVE HandedResults(_)
HandedResults(hs) ==
    IF Len(hs) = 0 THEN << >> ELSE Head(hs).results \o HandedResults(Tail(hs))

\* The columns of a task category's table in the spreadsheet.
TaskColumns(t) == IF t = "offsite" THEN 7..15 ELSE 20..25

\* The value the "last completed" cell holds when the run starts.
HeartbeatBefore == [ ymdhms |-> 1703200000, micro |-> 0, has_micro |-> FALSE ]

\* The writes to the "last completed" cell (row 3, column 18).
HeartbeatWrites == { i \in 1..Len(writes) : writes[i].row = 3 /\ writes[i].col = 18 }

\* C7 as stated: a run that ends in an error has written no TaskResult
\* cell, neither for the failing site nor for any site or task before it.
C7_AsStated == pc = "error" => writes = << >>

\* The state a run is in once an exception was raised.
FailedRun ==
    /\ pc = "error"
    /\ HandedMatches
    /\ writes = ExpectedWritesOf(HandedResults(handed))
    /\ err \in PassErrors =>
           \A i \in 1..Len(writes) :
               ~(/\ writes[i].row = get_row_idx(SubSeq(site_logs, Len(site_logs) - 1,
                                                       Len(site_logs)))
                 /\ writes[i].col \in TaskColumns(task))
    /\ task = "daily_journal" => ~roots["offsite"].read
    /\ HeartbeatWrites = { }
    /\ sheet[<< 3, 18 >>] = HeartbeatBefore

\* C7: a fatal condition ends the run where it is raised: a run of the
\* entry point that raised takes no further step, so no site or task after
\* the failing one is processed and the "last completed" cell is not
\* stamped; it has written no cell for the failing site's pass, and the
\* cells it has written are exactly the four writes per result of the
\* passes that finished before the failure.
C7_FailFast == [][ err = "none" /\ (err' # "none" => FailedRun') ]_vars

\* C7's case: a pass has reported its results to the sheet and a later
\* pass has raised.
C7_Witness ==
    /\ pc = "error"
    /\ err \in PassErrors
    /\ Len(handed) >= 1
    /\ Len(writes) >= 8
    /\ pending # << >>

\* C8: log_completion writes cell (3, 18) at most once in a run, as the
\* last write of the run, and only when every site directory (TOTAL and
\* plain files left out) of daily_journal and then of offsite has been
\* tracked and reported; a run that raised has left the cell as it was.
C8_Heartbeat ==
    /\ Cardinality(HeartbeatWrites) <= 1
    /\ HeartbeatWrites # { } <=> pc = "done"
    /\ pc = "done" =>
           /\ err = "none"
           /\ HeartbeatWrites = { Len(writes) }
           /\ roots["daily_journal"].read /\ roots["offsite"].read
           /\ pending = << >>
           /\ HandedMatches
           /\ Len(handed) = Len(ExpectedSites("daily_journal", roots["daily_journal"].entries))
                              + Len(ExpectedSites("offsite", roots["offsite"].entries))
           /\ SubSeq(writes, 1, Len(writes) - 1) = ExpectedWritesOf(HandedResults(handed))
    /\ pc # "done" => sheet[<< 3, 18 >>] = HeartbeatBefore
    /\ err # "none" => pc = "error"

\* C8's case: a run over roots that hold TOTAL and a plain file beside the
\* site directories has reported both sites and stamped the cell last.
C8_Witness ==
    /\ pc = "done"
    /\ \E i \in 1..Len(roots["daily_journal"].entries) :
           roots["daily_journal"].entries[i].name = << "T", "O", "T", "A", "L" >>
    /\ \E i \in 1..Len(roots["offsite"].entries) : ~roots["offsite"].entries[i].is_dir
    /\ Len(handed) = 2
    /\ Len(writes) = 4 * 5 + 1
    /\ sheet[<< 3, 18 >>] # HeartbeatBefore

\* ---------------------------------------------------------------------
\* tracker/scripts/track_lochness.py

SecondsPerHour == 3600

MicrosPerSecond == 1000000

\* The time of the sample "last completed" stamps.
LastSeen == 1703200000

\* timedelta(hours=threshold)
Hours(threshold) == [ s |-> threshold * SecondsPerHour, us |-> 0 ]

\* now - last_run: a timedelta, its microseconds within 0..999999.
Minus(a, b) ==
    IF a.us >= b.us
    THEN [ s |-> a.s - b.s, us |-> a.us - b.us ]
    ELSE [ s |-> a.s - b.s - 1, us |-> a.us + MicrosPerSecond - b.us ]

\* timedelta < timedelta
TimedeltaLess(a, b) == a.s < b.s \/ (a.s = b.s /\ a.us < b.us)

\* The comparison with the threshold itself counted as within it.
check_if_within_threshold_inclusive(threshold_str, last, current) ==
    LET threshold == IntVal(threshold_str)
        diff == Minus(current, last)
    IN  ~TimedeltaLess(Hours(threshold), diff)

\* check_if_within_threshold, once the configuration and the clock are read.
check_if_within_threshold(threshold_str, last, current) ==
    LET threshold == IntVal(threshold_str)
        diff == Minus(current, last)
    IN  IF TimedeltaLess(diff, Hours(threshold)) THEN TRUE ELSE FALSE

\* email_threshold_hours as config.ini may hold it.
ThresholdSamples ==
    { << "6" >>, << "1" >>, << "0" >>, << "-", "1" >>, << "1", "2" >>, << "6", ".", "5" >> }

\* What the "last completed" cell may hold: a stamp without and with
\* microseconds, and nothing.
CellSamples ==
    { StrDatetime([ s |-> LastSeen, us |-> 0 ]),
      StrDatetime([ s |-> LastSeen, us |-> 250000 ]),
      [ blank |-> TRUE ] }

\* What datetime.now() may return: around the threshold after the stamp,
\* and before the stamp.
ClockSamples(last, threshold) ==
    { [ s |-> last.s + threshold * SecondsPerHour + d, us |-> u ] :
          d \in { -1, 0, 1 }, u \in { 0, 1, 999999 } }
        \cup { [ s |-> last.s - 60, us |-> 0 ], [ s |-> last.s, us |-> 0 ] }

LochnessInit ==
    /\ pc = "lochness"
    /\ err = "none"
    /\ cfg \in [ email_threshold_hours : ThresholdSamples, mail_binary : BOOLEAN ]
    /\ LochnessIdle
    /\ task_i = 0
    /\ task = "unset"
    /\ roots = [ t \in { "daily_journal", "offsite" } |-> [ read |-> FALSE, entries |-> << >> ] ]
    /\ pending = << >>
    /\ site_logs = << >>
    /\ dir = << >>
    /\ sub_i = 0
    /\ task_results = << >>
    /\ handed = << >>
    /\ res_i = 0
    /\ sheet \in { [ c \in SheetCells |->
                       IF c = << HeartbeatRow, HeartbeatCol >> THEN v
                       ELSE [ blank |-> TRUE ] ] : v \in CellSamples }
    /\ notes = [ c \in SheetCells |-> << >> ]
    /\ writes = << >>
    /\ arg = << >>
    /\ ret = << >>

LochnessFrame ==
    UNCHANGED << cfg, task_i, task, roots, pending, site_logs, dir, sub_i,
                 task_results, handed, res_i, sheet, notes, writes, arg, ret >>

\* get_last_updated: read cell (3, 18), strptime "%Y-%m-%d %H:%M:%S".
get_last_updated ==
    /\ pc = "lochness"
    /\ LET last_run_str == sheet[<< 3, 18 >>]
       IN  IF "blank" \in DOMAIN last_run_str
           THEN Raise("ValueError") /\ UNCHANGED last_run
           ELSE IF last_run_str.has_micro
           THEN Raise("ValueError") /\ UNCHANGED last_run
           ELSE /\ last_run' = [ s |-> last_run_str.ymdhms, us |-> 0 ]
                /\ pc' = "check"
                /\ err' = err
    /\ UNCHANGED << now, within_threshold, mail >>
    /\ LochnessFrame

\* check_if_within_threshold(config_file, last_run)
CallCheckIfWithinThreshold ==
    /\ pc = "check"
    /\ IF ~IntOk(cfg.email_threshold_hours)
       THEN Raise("ValueError") /\ UNCHANGED << now, within_threshold >>
       ELSE \E current \in ClockSamples(last_run, IntVal(cfg.email_threshold_hours)) :
                /\ now' = current
                /\ within_threshold' =
                       check_if_within_threshold(cfg.email_threshold_hours, last_run, current)
                /\ pc' = "decide"
                /\ err' = err
    /\ UNCHANGED << last_run, mail >>
    /\ LochnessFrame

\* __main__: if not within_threshold: send_email(...), which ends in
\* cli.send_email (a no-op without /usr/bin/mail).
SendIfOverdue ==
    /\ pc = "decide"
    /\ IF ~within_threshold
       THEN mail' = Append(mail, [ last_run |-> last_run,
                                   threshold |-> cfg.email_threshold_hours,
                                   delivered |-> cfg.mail_binary ])
       ELSE mail' = mail
    /\ pc' = "lochness_done"
    /\ UNCHANGED << err, last_run, now, within_threshold >>
    /\ LochnessFrame

LochnessNext == get_last_updated \/ CallCheckIfWithinThreshold \/ SendIfOverdue

LochnessSpec == LochnessInit /\ [][LochnessNext]_vars

\* now - last_run in whole seconds, and whether a fraction of a second is over.
AgeSeconds == now.s - last_run.s

\* The heartbeat is younger than T hours.
Younger(T) ==
    \/ AgeSeconds < T * 60 * 60
    \/ AgeSeconds = T * 60 * 60 /\ now.us < last_run.us

\* The threshold of the configuration, as the integer it spells.
ThresholdOf(str) ==
    CASE str = << "6" >> -> 6
      [] str = << "1" >> -> 1
      [] str = << "0" >> -> 0
      [] str = << "-", "1" >> -> 0 - 1
      [] str = << "1", "2" >> -> 12

HeartbeatInit ==
    /\ pc = "completion"
    /\ err = "none"
    /\ cfg \in [ network : { TRUE },
                 log_source_dir : { { "daily_journal", "offsite" } },
                 email_threshold_hours : { t \in ThresholdSamples : IntOk(t) },
                 mail_binary : BOOLEAN ]
    /\ LochnessIdle
    /\ task_i = Len(tasks) + 1
    /\ task = tasks[Len(tasks)]
    /\ roots = [ t \in { "daily_journal", "offsite" } |-> [ read |-> TRUE, entries |-> << >> ] ]
    /\ pending = << >>
    /\ site_logs = << >>
    /\ dir = << >>
    /\ sub_i = 0
    /\ task_results = << >>
    /\ handed = << >>
    /\ res_i = 0
    /\ SheetInit
    /\ arg = << >>
    /\ ret = << >>

\* track_lochness's __main__ is started after the tracking run has ended.
StartLochness ==
    /\ pc = "done"
    /\ pc' = "lochness"
    /\ UNCHANGED << err, lochness_vars >>
    /\ LochnessFrame

HeartbeatNext == log_completion \/ StartLochness \/ LochnessNext

HeartbeatSpec == HeartbeatInit /\ [][HeartbeatNext]_vars

\* C11: the value log_completion stamps into cell (3, 18) is one that
\* get_last_updated accepts, and it parses back to the completion time to
\* the second: once the cell written by the run has been read back, no
\* parse error was raised and last_run is the second of the stamp.
C11_RoundTrip ==
    (HeartbeatWrites # { } /\ pc \notin { "done", "lochness" }) =>
        /\ err = "none"
        /\ last_run.s = writes[Len(writes)].value.ymdhms
        /\ last_run.us = 0

\* ---------------------------------------------------------------------
\* The columns of the Reporting Sink.

\* The (task category, subtask) pairs that have columns.
ColumnPairs ==
    { << "offsite", audio_process >>, << "offsite", transcript_process >>,
      << "offsite", video_process >>, << "daily_journal", audio_process >>,
      << "daily_journal", transcript_process >> }

\* The three columns of a pair: base, base + 1, base + 2.
ColumnsOf(p) ==
    LET base == sub_tasks_col_idx(p[1], p[2]) IN { base, base + 1, base + 2 }

\* The writes of the run that log_to_sheet made: all but log_completion's.
ResultWriteCount == IF pc = "done" THEN Len(writes) - 1 ELSE Len(writes)

\* C12: the columns of log_to_sheet never collide: the three columns of
\* two distinct (task category, subtask) pairs are disjoint and none is
\* column 18; so in a run no write of a result goes to column 18, two
\* writes to the same cell come from the same (task category, subtask,
\* field), every cell written still holds what was written to it, and the
\* "last completed" cell holds only what log_completion stamped.
C12_NoCollision ==
    /\ \A p \in ColumnPairs :
           /\ 18 \notin ColumnsOf(p)
           /\ 0 \notin ColumnsOf(p)
           /\ \A q \in ColumnPairs : p # q => ColumnsOf(p) \cap ColumnsOf(q) = { }
    /\ LET rs == HandedResults(handed)
           source(k) == [ task |-> rs[((k - 1) \div 4) + 1].task,
                          subtask |-> rs[((k - 1) \div 4) + 1].subtask,
                          field |-> (k - 1) % 4 ]
       IN  \A k \in 1..ResultWriteCount :
               /\ writes[k].col # 18
               /\ writes[k].op = "update_cell" =>
                      sheet[<< writes[k].row, writes[k].col >>] = writes[k].value
               /\ writes[k].op = "update_note" =>
                      notes[<< writes[k].row, writes[k].col >>] = writes[k].value
               /\ \A j \in 1..ResultWriteCount :
                      (/\ writes[j].row = writes[k].row
                       /\ writes[j].col = writes[k].col
                       /\ writes[j].op = writes[k].op) => source(j) = source(k)
    /\ sheet[<< 3, 18 >>] =
           (IF pc = "done" THEN writes[Len(writes)].value ELSE HeartbeatBefore)

\* C12's case: one site was reported for daily_journal and for offsite, all
\* fifteen cells of its row are written, and the run has stamped the cell.
C12_Witness ==
    /\ pc = "done"
    /\ Len(handed) = 2
    /\ handed[1].site = handed[2].site
    /\ handed[1].site = << "P", "Y", "A" >>
    /\ handed[1].task # handed[2].task
    /\ Len(writes) = 21
    /\ \A c \in (7..15) \cup (20..25) : sheet[<< 3, c >>] # [ blank |-> TRUE ]
    /\ sheet[<< 3, 18 >>] # HeartbeatBefore

====
